---- MODULE Spec2Model ----
(***************************************************************************)
(* Model of the assertion codec of package asserts (src/asserts/asserts.go):*)
(* header grammar, one-shot Decode/Encode, assembleAndSign, the streaming   *)
(* Decoder (with its bufio.Reader buffer) and the streaming Encoder.        *)
(*                                                                         *)
(* A Go string or []byte is a sequence of bytes; a byte is a one-character  *)
(* string, and XFF stands for a byte that is not valid UTF-8.  A Go         *)
(* map[string]string is a function whose domain is a set of such sequences. *)
(* A Go error is a sequence of message parts (NoErr when nil); fmt.Errorf   *)
(* wrapping prepends a part.                                                *)
(***************************************************************************)
EXTENDS Integers, Sequences, FiniteSets, TLC

VARIABLES
    hdr,      \* header grammar run: the entry written by writeHeader and parsed back
    codec,    \* codec run: assembleAndSign -> Encode -> Decode
    rd,       \* Decoder.rd: what the underlying io.Reader still has to deliver
    b,        \* Decoder.b: the bufio.Reader (buffered bytes, buffer size, pending error)
    derr,     \* Decoder.err
    cfg,      \* Decoder.initialBufSize, maxHeadersSize, maxBodySize, maxSigSize
    out,      \* results of the Decoder.Decode() calls made so far, in order
    scn,      \* how the stream given to the Decoder was built (never read by the code)
    oneshot,  \* result of the one-shot Decode on the same bytes
    enc,      \* Encoder: nextSep, the writer's bytes, and the writer's remaining budget
    encIn     \* the assertions passed to Encoder.Encode so far, with each call's error

vars == <<hdr, codec, rd, b, derr, cfg, out, scn, oneshot, enc, encIn>>

-----------------------------------------------------------------------------
(* Bytes and strings *)

XFF == "xFF"
nl == <<"\n">>
nlnl == <<"\n", "\n">>

Lower == {"a", "b", "c", "d", "e", "f", "g", "h", "i", "j", "k", "l", "m",
          "n", "o", "p", "q", "r", "s", "t", "u", "v", "w", "x", "y", "z"}
Digits == <<"0", "1", "2", "3", "4", "5", "6", "7", "8", "9">>
Digit == {Digits[i] : i \in 1..Len(Digits)}

\* the bytes the model uses, in increasing byte value
ByteOrder == <<"\n", " ", "+", "-", "/", "0", "1", "2", "3", "4", "5", "6", "7",
               "8", "9", ":", "A", "B", "S", "Z", "a", "b", "c", "d", "e", "f",
               "g", "h", "i", "j", "k", "l", "m", "n", "o", "p", "q", "r", "s",
               "t", "u", "v", "w", "x", "y", "z", XFF>>
Ord(c) == CHOOSE i \in 1..Len(ByteOrder) : ByteOrder[i] = c

Min(S) == CHOOSE m \in S : \A x \in S : m <= x
Max(S) == CHOOSE m \in S : \A x \in S : m >= x

Take(s, n) == SubSeq(s, 1, n)
Drop(s, n) == SubSeq(s, n + 1, Len(s))

\* bytes.Index / strings.Index: offset of the first occurrence, -1 if none
Index(s, sep) ==
    LET P == {i \in 0..(Len(s) - Len(sep)) : SubSeq(s, i + 1, i + Len(sep)) = sep}
    IN IF P = {} THEN -1 ELSE Min(P)

\* bytes.LastIndex: offset of the last occurrence, -1 if none
LastIndex(s, sep) ==
    LET P == {i \in 0..(Len(s) - Len(sep)) : SubSeq(s, i + 1, i + Len(sep)) = sep}
    IN IF P = {} THEN -1 ELSE Max(P)

HasSuffix(s, suf) ==
    Len(s) >= Len(suf) /\ SubSeq(s, Len(s) - Len(suf) + 1, Len(s)) = suf

\* strings.Split(s, "\n"): the lines of s (one empty line for the empty string)
RECURSIVE SplitLines(_)
SplitLines(s) ==
    LET i == Index(s, nl)
    IN IF i = -1 THEN <<s>> ELSE <<Take(s, i)>> \o SplitLines(Drop(s, i + 1))

\* strings.Replace(value, "\n", "\n ", -1)
RECURSIVE IndentNewlines(_)
IndentNewlines(s) ==
    IF s = <<>> THEN <<>>
    ELSE (IF Head(s) = "\n" THEN <<"\n", " ">> ELSE <<Head(s)>>) \o IndentNewlines(Tail(s))

\* utf8.Valid
Utf8Valid(s) == \A i \in 1..Len(s) : s[i] # XFF

\* byte-wise string order, as sort.Strings compares
RECURSIVE StrLess(_, _)
StrLess(x, y) ==
    IF y = <<>> THEN FALSE
    ELSE IF x = <<>> THEN TRUE
    ELSE IF Head(x) = Head(y) THEN StrLess(Tail(x), Tail(y))
    ELSE Ord(Head(x)) < Ord(Head(y))

\* s with x inserted before the first element that is not smaller than x
RECURSIVE InsertSorted(_, _)
InsertSorted(s, x) ==
    IF s = <<>> THEN <<x>>
    ELSE IF StrLess(Head(s), x) THEN <<Head(s)>> \o InsertSorted(Tail(s), x)
    ELSE <<x>> \o s

\* sort.Strings: the strings of keys in increasing byte-wise order
RECURSIVE SortStrings(_)
SortStrings(keys) ==
    IF keys = <<>> THEN <<>>
    ELSE InsertSorted(SortStrings(Tail(keys)), Head(keys))

\* strconv.Itoa for n >= 0
RECURSIVE Itoa(_)
Itoa(n) == IF n < 10 THEN <<Digits[n + 1]>> ELSE Itoa(n \div 10) \o <<Digits[(n % 10) + 1]>>

DigitVal(c) == (CHOOSE i \in 1..Len(Digits) : Digits[i] = c) - 1

RECURSIVE DigitsVal(_)
DigitsVal(s) == IF s = <<>> THEN 0 ELSE DigitsVal(Take(s, Len(s) - 1)) * 10 + DigitVal(s[Len(s)])

AllDigits(s) == s # <<>> /\ \A i \in 1..Len(s) : s[i] \in Digit

\* the digits without their leading zeros
RECURSIVE StripZeros(_)
StripZeros(s) == IF Len(s) > 1 /\ Head(s) = "0" THEN StripZeros(Tail(s)) ELSE s

\* the largest magnitudes of Go's int (64 bits): 2^63 - 1, and 2^63 after a "-"
MaxIntDigits == <<"9", "2", "2", "3", "3", "7", "2", "0", "3", "6", "8", "5", "4", "7", "7",
                  "5", "8", "0", "7">>
MinIntDigits == <<"9", "2", "2", "3", "3", "7", "2", "0", "3", "6", "8", "5", "4", "7", "7",
                  "5", "8", "0", "8">>

\* the number written by the digits s is at most the one written by limit
DigitsWithin(s, limit) ==
    \/ Len(StripZeros(s)) < Len(limit)
    \/ Len(StripZeros(s)) = Len(limit) /\ ~StrLess(limit, StripZeros(s))

\* strconv.Atoi: base 10 with an optional sign, a value out of the range of int is
\* an error
AtoiOk(s) ==
    \/ AllDigits(s) /\ DigitsWithin(s, MaxIntDigits)
    \/ s # <<>> /\ s[1] = "+" /\ AllDigits(Tail(s)) /\ DigitsWithin(Tail(s), MaxIntDigits)
    \/ s # <<>> /\ s[1] = "-" /\ AllDigits(Tail(s)) /\ DigitsWithin(Tail(s), MinIntDigits)
Atoi(s) ==
    IF AllDigits(s) THEN DigitsVal(s)
    ELSE IF s[1] = "-" THEN 0 - DigitsVal(Tail(s)) ELSE DigitsVal(Tail(s))

-----------------------------------------------------------------------------
(* Errors *)

NoErr == <<>>
Errorf(msg) == <<msg>>
Wrap(prefix, err) == <<prefix>> \o err
EOF == <<"EOF">>
ErrUnexpectedEOF == <<"unexpected EOF">>
ErrBufferFull == <<"bufio: buffer full">>

-----------------------------------------------------------------------------
(* Header names and the type registry *)

S_type == <<"t", "y", "p", "e">>
S_authority_id == <<"a", "u", "t", "h", "o", "r", "i", "t", "y", "-", "i", "d">>
S_revision == <<"r", "e", "v", "i", "s", "i", "o", "n">>
S_body_length == <<"b", "o", "d", "y", "-", "l", "e", "n", "g", "t", "h">>
S_account == <<"a", "c", "c", "o", "u", "n", "t">>
S_account_key == <<"a", "c", "c", "o", "u", "n", "t", "-", "k", "e", "y">>
S_model == <<"m", "o", "d", "e", "l">>
S_serial == <<"s", "e", "r", "i", "a", "l">>
S_snap_declaration == <<"s", "n", "a", "p", "-", "d", "e", "c", "l", "a", "r", "a", "t", "i", "o", "n">>
S_snap_build == <<"s", "n", "a", "p", "-", "b", "u", "i", "l", "d">>
S_snap_revision == <<"s", "n", "a", "p", "-", "r", "e", "v", "i", "s", "i", "o", "n">>
S_account_id == <<"a", "c", "c", "o", "u", "n", "t", "-", "i", "d">>
S_public_key_id == <<"p", "u", "b", "l", "i", "c", "-", "k", "e", "y", "-", "i", "d">>
S_series == <<"s", "e", "r", "i", "e", "s">>
S_brand_id == <<"b", "r", "a", "n", "d", "-", "i", "d">>
S_snap_id == <<"s", "n", "a", "p", "-", "i", "d">>
S_snap_digest == <<"s", "n", "a", "p", "-", "d", "i", "g", "e", "s", "t">>

\* an AssertionType: its Name and PrimaryKey
AccountType == [Name |-> S_account, PrimaryKey |-> <<S_account_id>>]
AccountKeyType == [Name |-> S_account_key, PrimaryKey |-> <<S_account_id, S_public_key_id>>]
ModelType == [Name |-> S_model, PrimaryKey |-> <<S_series, S_brand_id, S_model>>]
SerialType == [Name |-> S_serial, PrimaryKey |-> <<S_brand_id, S_model, S_serial>>]
SnapDeclarationType == [Name |-> S_snap_declaration, PrimaryKey |-> <<S_series, S_snap_id>>]
SnapBuildType == [Name |-> S_snap_build, PrimaryKey |-> <<S_series, S_snap_id, S_snap_digest>>]
SnapRevisionType == [Name |-> S_snap_revision, PrimaryKey |-> <<S_series, S_snap_id, S_snap_digest>>]

typeRegistry == {AccountType, AccountKeyType, ModelType, SerialType,
                 SnapDeclarationType, SnapBuildType, SnapRevisionType}

\* Type(name): the registered type, or Nil
Nil == [Name |-> <<>>, PrimaryKey |-> <<>>]
Type(name) ==
    IF \E t \in typeRegistry : t.Name = name
    THEN CHOOSE t \in typeRegistry : t.Name = name
    ELSE Nil

\* a map entry set or replaced
MapSet(m, k, v) == [n \in DOMAIN m \cup {k} |-> IF n = k THEN v ELSE m[n]]
\* delete(m, k)
MapDelete(m, k) == [n \in DOMAIN m \ {k} |-> m[n]]
EmptyMap == [n \in {} |-> <<>>]
\* m[k] of a Go map: the empty string when absent
MapGet(m, k) == IF k \in DOMAIN m THEN m[k] ELSE <<>>

-----------------------------------------------------------------------------
(* Header grammar *)

\* headerNameSanity: ^[a-z][a-z0-9-]*[a-z0-9]$
headerNameSanity(name) ==
    /\ Len(name) >= 2
    /\ name[1] \in Lower
    /\ name[Len(name)] \in Lower \cup Digit
    /\ \A i \in 2..(Len(name) - 1) : name[i] \in Lower \cup Digit \cup {"-"}

\* the index after the continuation lines that start at line j (1-based)
RECURSIVE ContinuationEnd(_, _)
ContinuationEnd(lines, j) ==
    IF j > Len(lines) THEN j
    ELSE IF Len(lines[j]) = 0 \/ lines[j][1] # " " THEN j
    ELSE ContinuationEnd(lines, j + 1)

\* lines[i..j-1] without their leading space, joined by "\n"
RECURSIVE JoinContinuation(_, _, _)
JoinContinuation(lines, i, j) ==
    IF i >= j THEN <<>>
    ELSE Tail(lines[i]) \o (IF i + 1 < j THEN nl ELSE <<>>) \o JoinContinuation(lines, i + 1, j)

\* the loop of parseHeaders from line i (1-based) on
RECURSIVE parseEntries(_, _, _)
parseEntries(lines, i, headers) ==
    IF i > Len(lines) THEN [headers |-> headers, err |-> NoErr]
    ELSE
        LET entry == lines[i]
            nameValueSplit == Index(entry, <<":">>)
            name == Take(entry, nameValueSplit)
            afterSplit == nameValueSplit + 1
            j == ContinuationEnd(lines, i + 1)
        IN IF nameValueSplit = -1
           THEN [headers |-> EmptyMap, err |-> Errorf("header entry missing ':' separator")]
           ELSE IF ~headerNameSanity(name)
           THEN [headers |-> EmptyMap, err |-> Errorf("invalid header name")]
           ELSE IF afterSplit = Len(entry)
           THEN IF j = i + 1
                THEN [headers |-> EmptyMap, err |-> Errorf("empty multiline header value")]
                ELSE parseEntries(lines, j, MapSet(headers, name, JoinContinuation(lines, i + 1, j)))
           ELSE IF entry[afterSplit + 1] # " "
           THEN [headers |-> EmptyMap,
                 err |-> Errorf("header entry should have a space or newline (multiline) before value")]
           ELSE parseEntries(lines, i + 1, MapSet(headers, name, Drop(entry, afterSplit + 1)))

parseHeaders(head) ==
    IF ~Utf8Valid(head)
    THEN [headers |-> EmptyMap, err |-> Errorf("header is not utf8")]
    ELSE parseEntries(SplitLines(head), 1, EmptyMap)

\* writeHeader: buf with "\n", name and the (possibly indented) value appended
\* writeHeader that leaves the lines of a multi-line value as they are
writeHeader_noIndent(buf, headers, name) ==
    LET value == MapGet(headers, name)
    IN IF Index(value, nl) # -1
       THEN buf \o nl \o name \o <<":", "\n", " ">> \o value
       ELSE buf \o nl \o name \o <<":", " ">> \o value

writeHeader(buf, headers, name) ==
    LET value == MapGet(headers, name)
    IN IF Index(value, nl) # -1
       THEN buf \o nl \o name \o <<":", "\n", " ">> \o IndentNewlines(value)
       ELSE buf \o nl \o name \o <<":", " ">> \o value

-----------------------------------------------------------------------------
(* Validators (helpers of the package that the codec calls) *)

\* checkInteger: the header as a base-10 integer, defl when absent
checkInteger(headers, name, defl) ==
    IF name \notin DOMAIN headers THEN [v |-> defl, err |-> NoErr]
    ELSE IF ~AtoiOk(headers[name]) THEN [v |-> -1, err |-> Errorf("header is not an integer")]
    ELSE [v |-> Atoi(headers[name]), err |-> NoErr]

\* checkNotEmpty: the header must be present and not empty
checkNotEmpty(headers, name) ==
    IF name \notin DOMAIN headers THEN [v |-> <<>>, err |-> Errorf("header is mandatory")]
    ELSE IF Len(headers[name]) = 0 THEN [v |-> <<>>, err |-> Errorf("header should not be empty")]
    ELSE [v |-> headers[name], err |-> NoErr]

\* checkPrimaryKey: present, not empty, without '/'
checkPrimaryKey(headers, name) ==
    LET r == checkNotEmpty(headers, name)
    IN IF r.err # NoErr THEN r
       ELSE IF Index(r.v, <<"/">>) # -1
       THEN [v |-> <<>>, err |-> Errorf("primary key header cannot contain '/'")]
       ELSE r

\* checkAssertType: the type must be the registered one of its name
checkAssertType(assertType) ==
    IF assertType = Nil THEN Errorf("internal error: assertion type cannot be nil")
    ELSE IF Type(assertType.Name) = Nil THEN Errorf("internal error: unknown assertion type")
    ELSE IF Type(assertType.Name) # assertType
    THEN Errorf("internal error: unexpected assertion type value")
    ELSE NoErr

checkRevision(headers) ==
    LET r == checkInteger(headers, S_revision, 0)
    IN IF r.err # NoErr THEN [v |-> -1, err |-> r.err]
       ELSE IF r.v < 0 THEN [v |-> -1, err |-> Errorf("revision should be positive")]
       ELSE r

\* the type's assembler: promotes the base record (type-specific checks are not modelled)
assembler(assertType, base) == [a |-> base, err |-> NoErr]

\* signContent: the signer's signature over content, or its error
signContent(content, privKey) ==
    IF privKey.fail THEN [sig |-> <<>>, err |-> Errorf("signing failed")]
    ELSE [sig |-> privKey.sig, err |-> NoErr]

-----------------------------------------------------------------------------
(* Assertions: one-shot Decode, Assemble, assembleAndSign, Encode *)

\* an assertionBase
Base(headers, body, revision, content, signature) ==
    [headers |-> headers, body |-> body, revision |-> revision,
     content |-> content, signature |-> signature]

NoAssertion == Base(EmptyMap, <<>>, -1, <<>>, <<>>)
Failed(err) == [a |-> NoAssertion, err |-> err]

\* the primary-key loop of Assemble from key i on: the first error, or NoErr
RECURSIVE checkPrimaryKeys(_, _, _)
checkPrimaryKeys(headers, pk, i) ==
    IF i > Len(pk) THEN NoErr
    ELSE IF checkPrimaryKey(headers, pk[i]).err # NoErr THEN checkPrimaryKey(headers, pk[i]).err
    ELSE checkPrimaryKeys(headers, pk, i + 1)

Assemble(headers, body, content, signature) ==
    LET length == checkInteger(headers, S_body_length, 0)
        typ == checkNotEmpty(headers, S_type)
        assertType == Type(typ.v)
        revision == checkRevision(headers)
    IN IF length.err # NoErr THEN Failed(Wrap("assertion", length.err))
       ELSE IF length.v # Len(body)
       THEN Failed(Errorf("assertion body length and declared body-length don't match"))
       ELSE IF checkNotEmpty(headers, S_authority_id).err # NoErr
       THEN Failed(Wrap("assertion", checkNotEmpty(headers, S_authority_id).err))
       ELSE IF typ.err # NoErr THEN Failed(Wrap("assertion", typ.err))
       ELSE IF assertType = Nil THEN Failed(Errorf("unknown assertion type"))
       ELSE IF checkPrimaryKeys(headers, assertType.PrimaryKey, 1) # NoErr
       THEN Failed(Wrap("assertion", checkPrimaryKeys(headers, assertType.PrimaryKey, 1)))
       ELSE IF revision.err # NoErr THEN Failed(Wrap("assertion", revision.err))
       ELSE IF Len(signature) = 0 THEN Failed(Errorf("empty assertion signature"))
       ELSE LET r == assembler(assertType, Base(headers, body, revision.v, content, signature))
            IN IF r.err # NoErr THEN Failed(Wrap("assertion", r.err)) ELSE r

\* Decode splitting content and signature at the first "\n\n"
Decode_firstSplit(serializedAssertion) ==
    LET contentSignatureSplit == Index(serializedAssertion, nlnl)
        content == Take(serializedAssertion, contentSignatureSplit)
        signature == Drop(serializedAssertion, contentSignatureSplit + 2)
        headersBodySplit == Index(content, nlnl)
        body == IF headersBodySplit = -1 THEN <<>> ELSE Drop(content, headersBodySplit + 2)
        head == IF headersBodySplit = -1 THEN content ELSE Take(content, headersBodySplit)
        parsed == parseHeaders(head)
    IN IF contentSignatureSplit = -1
       THEN Failed(Errorf("assertion content/signature separator not found"))
       ELSE IF parsed.err # NoErr THEN Failed(Wrap("parsing assertion headers", parsed.err))
       ELSE Assemble(parsed.headers, body, content, signature)

\* Decode: the one-shot decoder
Decode(serializedAssertion) ==
    LET contentSignatureSplit == LastIndex(serializedAssertion, nlnl)
        content == Take(serializedAssertion, contentSignatureSplit)
        signature == Drop(serializedAssertion, contentSignatureSplit + 2)
        headersBodySplit == Index(content, nlnl)
        body == IF headersBodySplit = -1 THEN <<>> ELSE Drop(content, headersBodySplit + 2)
        head == IF headersBodySplit = -1 THEN content ELSE Take(content, headersBodySplit)
        parsed == parseHeaders(head)
    IN IF contentSignatureSplit = -1
       THEN Failed(Errorf("assertion content/signature separator not found"))
       ELSE IF parsed.err # NoErr THEN Failed(Wrap("parsing assertion headers", parsed.err))
       ELSE Assemble(parsed.headers, body, content, signature)

\* the primary-key loop of assembleAndSign from key i on: each key checked, then written
RECURSIVE writePrimaryKeys(_, _, _, _)
writePrimaryKeys(buf, finalHeaders, pk, i) ==
    IF i > Len(pk) THEN [buf |-> buf, err |-> NoErr]
    ELSE IF checkPrimaryKey(finalHeaders, pk[i]).err # NoErr
    THEN [buf |-> buf, err |-> checkPrimaryKey(finalHeaders, pk[i]).err]
    ELSE writePrimaryKeys(writeHeader(buf, finalHeaders, pk[i]), finalHeaders, pk, i + 1)

\* the headers of otherKeys written in order
RECURSIVE writeHeaders(_, _, _)
writeHeaders(buf, finalHeaders, keys) ==
    IF keys = <<>> THEN buf
    ELSE writeHeaders(writeHeader(buf, finalHeaders, Head(keys)), finalHeaders, Tail(keys))

\* the range loop over finalHeaders that collects the keys not yet written (Go
\* leaves the iteration order of a map unspecified: rangeOrder is the order this
\* run takes)
RECURSIVE unwrittenKeys(_, _, _)
unwrittenKeys(finalHeaders, written, rangeOrder) ==
    IF rangeOrder = <<>> THEN <<>>
    ELSE (IF Head(rangeOrder) \in DOMAIN finalHeaders /\ Head(rangeOrder) \notin written
          THEN <<Head(rangeOrder)>> ELSE <<>>)
         \o unwrittenKeys(finalHeaders, written, Tail(rangeOrder))

\* otherKeys left in the order of the range loop
otherKeysOf_unsorted(finalHeaders, written, rangeOrder) ==
    unwrittenKeys(finalHeaders, written, rangeOrder)

\* otherKeys after sort.Strings
otherKeysOf(finalHeaders, written, rangeOrder) ==
    SortStrings(unwrittenKeys(finalHeaders, written, rangeOrder))

\* finalHeaders after the revision step: the entry is deleted unless revision > 0
revisionHeaders(finalHeaders, revision) ==
    IF revision > 0 THEN finalHeaders ELSE MapDelete(finalHeaders, S_revision)

\* the body-length step that keeps the entry of an empty body
bodyLengthHeaders_kept(finalHeaders, bodyLength) == finalHeaders

\* finalHeaders after the body-length step: the entry is deleted for an empty body
bodyLengthHeaders(finalHeaders, bodyLength) ==
    IF bodyLength > 0 THEN finalHeaders ELSE MapDelete(finalHeaders, S_body_length)

\* assembleAndSign; rangeOrder lists the keys of headers in the order in which this
\* run's range loop over the map visits them
assembleAndSign(assertType, headers, body, privKey, rangeOrder) ==
    LET bodyLength == Len(body)
        withType == MapSet(MapSet(headers, S_type, assertType.Name), S_body_length, Itoa(bodyLength))
        revision == checkRevision(withType)
        buf1 == <<"t", "y", "p", "e", ":", " ">> \o assertType.Name
        buf2 == writeHeader(buf1, withType, S_authority_id)
        buf3 == IF revision.v > 0 THEN writeHeader(buf2, withType, S_revision) ELSE buf2
        headers3 == revisionHeaders(withType, revision.v)
        written == {S_type, S_authority_id, S_revision, S_body_length}
                     \cup {assertType.PrimaryKey[i] : i \in 1..Len(assertType.PrimaryKey)}
        prim == writePrimaryKeys(buf3, headers3, assertType.PrimaryKey, 1)
        otherKeys == otherKeysOf(headers3, written, rangeOrder)
        buf5 == writeHeaders(prim.buf, headers3, otherKeys)
        buf6 == IF bodyLength > 0 THEN writeHeader(buf5, headers3, S_body_length) ELSE buf5
        finalHeaders == bodyLengthHeaders(headers3, bodyLength)
        content == IF bodyLength > 0 THEN buf6 \o nlnl \o body ELSE buf6
        signed == signContent(content, privKey)
        signature == signed.sig \o nl
        r == assembler(assertType, Base(finalHeaders, body, revision.v, content, signature))
    IN IF checkAssertType(assertType) # NoErr THEN Failed(checkAssertType(assertType))
       ELSE IF checkNotEmpty(withType, S_authority_id).err # NoErr
       THEN Failed(checkNotEmpty(withType, S_authority_id).err)
       ELSE IF revision.err # NoErr THEN Failed(revision.err)
       ELSE IF prim.err # NoErr THEN Failed(prim.err)
       ELSE IF signed.err # NoErr THEN Failed(Wrap("cannot sign assertion", signed.err))
       ELSE IF r.err # NoErr THEN Failed(Wrap("cannot assemble assertion", r.err))
       ELSE r

\* Encode with a single "\n" between content and signature
Encode_singleNewline(assert) == assert.content \o nl \o assert.signature

\* Encode: content, "\n\n", signature
Encode(assert) == assert.content \o nlnl \o assert.signature

-----------------------------------------------------------------------------
(* The streaming Decoder.  Its state is st = [rd, b, derr, log]:                *)
(*   rd   the underlying reader: the events its Read calls still deliver, each *)
(*        some bytes or an error, and the error every Read returns after them  *)
(*   b    the bufio.Reader: unread buffered bytes, buffer size, pending error   *)
(*   derr Decoder.err                                                            *)
(*   log  the size, maximum and search offset of every peek readUntil made in  *)
(*        this call, and failed: the reader returned an error other than io.EOF *)
(*        in this call (both kept for the properties, never read by the code)    *)

MaxBodySize == 2097152
MaxHeadersSize == 131072
MaxSignatureSize == 131072
defaultDecoderButSize == 4096
\* bufio's smallest buffer (bufio.NewReaderSize raises a smaller size to it)
minReadBufferSize == 16

DataEvent(bytes) == [data |-> bytes, err |-> NoErr]
ErrEvent(err) == [data |-> <<>>, err |-> err]

\* bufio.NewReaderSize(rd, size)
NewReaderSize(size) ==
    [buf |-> <<>>, size |-> IF size < minReadBufferSize THEN minReadBufferSize ELSE size,
     err |-> NoErr]

\* bufio.Reader.fill: one Read of the underlying reader into the free space
bufioFill(st) ==
    IF st.rd.events = <<>>
    THEN [st EXCEPT !.b.err = st.rd.final, !.failed = @ \/ st.rd.final # EOF]
    ELSE LET ev == Head(st.rd.events)
             room == st.b.size - Len(st.b.buf)
             k == IF Len(ev.data) < room THEN Len(ev.data) ELSE room
         IN IF ev.err # NoErr
            THEN [st EXCEPT !.b.err = ev.err, !.rd.events = Tail(@), !.failed = TRUE]
            ELSE [st EXCEPT !.b.buf = @ \o Take(ev.data, k),
                            !.rd.events = IF k = Len(ev.data) THEN Tail(@)
                                          ELSE <<DataEvent(Drop(ev.data, k))>> \o Tail(@)]

\* the loop of bufio.Reader.Peek(n): fill until n bytes, a full buffer or an error
RECURSIVE bufioFillWhile(_, _)
bufioFillWhile(st, n) ==
    IF Len(st.b.buf) < n /\ Len(st.b.buf) < st.b.size /\ st.b.err = NoErr
    THEN bufioFillWhile(bufioFill(st), n)
    ELSE st

\* bufio.Reader.Peek(n)
bufioPeek(st, n) ==
    LET Filled(s1) ==
            IF n > s1.b.size THEN [st |-> s1, buf |-> s1.b.buf, err |-> ErrBufferFull]
            ELSE IF Len(s1.b.buf) < n
            THEN [st |-> [s1 EXCEPT !.b.err = NoErr], buf |-> s1.b.buf,
                  err |-> IF s1.b.err = NoErr THEN ErrBufferFull ELSE s1.b.err]
            ELSE [st |-> s1, buf |-> Take(s1.b.buf, n), err |-> NoErr]
    IN Filled(bufioFillWhile(st, n))

\* bufio.Reader.Discard(n) for n <= Buffered()
bufioDiscard(st, n) == [st EXCEPT !.b.buf = Drop(@, n)]

\* the new bufio.Reader of Decoder.peek: over what is buffered followed by d.rd
regrow(st, size, initialBufSize) ==
    [st EXCEPT !.rd.events = (IF st.b.buf = <<>> THEN <<>> ELSE <<DataEvent(st.b.buf)>>) \o @,
               !.b = NewReaderSize((size \div initialBufSize + 1) * initialBufSize)]

\* Decoder.peek(size)
peek(st, size, initialBufSize) ==
    LET Recorded(r) ==
            LET err == IF r.err # NoErr /\ r.st.derr = NoErr THEN r.err ELSE r.st.derr
            IN [st |-> [r.st EXCEPT !.derr = err], buf |-> r.buf, err |-> err]
        Peeked(first) ==
            IF first.err = ErrBufferFull
            THEN Recorded(bufioPeek(regrow(first.st, size, initialBufSize), size))
            ELSE Recorded(first)
    IN Peeked(bufioPeek(st, size))

\* readExact that leaves what it read in the buffer
readExact_noDiscard(st, size, initialBufSize) ==
    LET Read(p) ==
            IF Len(p.buf) = size THEN [st |-> p.st, buf |-> p.buf, err |-> NoErr]
            ELSE IF p.err = EOF THEN [st |-> p.st, buf |-> p.buf, err |-> ErrUnexpectedEOF]
            ELSE [st |-> p.st, buf |-> p.buf, err |-> p.err]
    IN Read(peek(st, size, initialBufSize))

\* readExact that passes io.EOF on as it is
readExact_plainEOF(st, size, initialBufSize) ==
    LET Read(p) ==
            LET after == bufioDiscard(p.st, Len(p.buf))
            IN IF Len(p.buf) = size THEN [st |-> after, buf |-> p.buf, err |-> NoErr]
               ELSE [st |-> after, buf |-> p.buf, err |-> p.err]
    IN Read(peek(st, size, initialBufSize))

\* Decoder.readExact(size)
readExact(st, size, initialBufSize) ==
    LET Read(p) ==
            LET after == bufioDiscard(p.st, Len(p.buf))
            IN IF Len(p.buf) = size THEN [st |-> after, buf |-> p.buf, err |-> NoErr]
               ELSE IF p.err = EOF THEN [st |-> after, buf |-> p.buf, err |-> ErrUnexpectedEOF]
               ELSE [st |-> after, buf |-> p.buf, err |-> p.err]
    IN Read(peek(st, size, initialBufSize))

ErrMaxSize == Errorf("maximum size exceeded while looking for delimiter")
ErrPanic == Errorf("panic")

\* the loop of readUntil without the check of size against maxSize
RECURSIVE readUntilLoop_noCap(_, _, _, _, _, _)
readUntilLoop_noCap(st, delim, maxSize, last, size, initialBufSize) ==
    LET Searched(p) ==
            LET i == Index(Drop(p.buf, last), delim)
                n == last + i + Len(delim)
            IN IF last > Len(p.buf) THEN [st |-> p.st, buf |-> <<>>, err |-> ErrPanic]
               ELSE IF i >= 0
               THEN [st |-> bufioDiscard(p.st, n), buf |-> Take(p.buf, n), err |-> NoErr]
               ELSE IF p.err # NoErr /\ Len(p.buf) = Len(p.st.b.buf)
               THEN [st |-> bufioDiscard(p.st, Len(p.buf)), buf |-> p.buf, err |-> p.err]
               ELSE readUntilLoop_noCap(p.st, delim, maxSize, size - Len(delim) + 1, size * 2,
                                        initialBufSize)
    IN Searched(peek([st EXCEPT !.log = Append(@, [size |-> size, max |-> maxSize,
                                                   last |-> last])],
                     size, initialBufSize))

\* the loop of Decoder.readUntil with its variables last and size
RECURSIVE readUntilLoop(_, _, _, _, _, _)
readUntilLoop(st, delim, maxSize, last, size, initialBufSize) ==
    LET Searched(p) ==
            LET i == Index(Drop(p.buf, last), delim)
                n == last + i + Len(delim)
            IN IF last > Len(p.buf) THEN [st |-> p.st, buf |-> <<>>, err |-> ErrPanic]
               ELSE IF i >= 0
               THEN [st |-> bufioDiscard(p.st, n), buf |-> Take(p.buf, n), err |-> NoErr]
               ELSE IF p.err # NoErr /\ Len(p.buf) = Len(p.st.b.buf)
               THEN [st |-> bufioDiscard(p.st, Len(p.buf)), buf |-> p.buf, err |-> p.err]
               ELSE IF size * 2 > maxSize THEN [st |-> p.st, buf |-> <<>>, err |-> ErrMaxSize]
               ELSE readUntilLoop(p.st, delim, maxSize, size - Len(delim) + 1, size * 2,
                                  initialBufSize)
    IN Searched(peek([st EXCEPT !.log = Append(@, [size |-> size, max |-> maxSize,
                                                   last |-> last])],
                     size, initialBufSize))

\* Decoder.readUntil(delim, maxSize)
readUntil(st, delim, maxSize, initialBufSize) ==
    readUntilLoop(st, delim, maxSize, 0, initialBufSize, initialBufSize)

\* what a Decode() call returns, with the Decoder's state after it
Returned(st, r) == [st |-> st, a |-> r.a, err |-> r.err]

\* Decoder.Decode from the trailer on, without contentBuf.Truncate(headLen)
decodeTrailer_noTruncate(st, d, headAndSep, headers, length, body) ==
    LET headLen == Len(headAndSep) - Len(nlnl)
        Signed(gotSep, sigRead) ==
            LET sig == IF HasSuffix(sigRead.buf, nlnl)
                       THEN Take(sigRead.buf, Len(sigRead.buf) - 1)
                       ELSE sigRead.buf
                finalContent == headAndSep \o body
                finalBody == IF length > 0 THEN Drop(finalContent, headLen + Len(nlnl))
                             ELSE <<>>
            IN IF gotSep /\ sigRead.err # NoErr /\ sigRead.err # EOF
               THEN Returned(sigRead.st,
                             Failed(Wrap("error reading assertion signature", sigRead.err)))
               ELSE IF ~gotSep /\ length > 0
               THEN Returned(sigRead.st, Failed(Errorf("missing content/signature separator")))
               ELSE Returned(sigRead.st, Assemble(headers, finalBody, finalContent, sig))
        Trailer(endOfBody) ==
            IF endOfBody.err # NoErr /\ endOfBody.err # EOF
            THEN Returned(endOfBody.st,
                          Failed(Wrap("error reading assertion trailer", endOfBody.err)))
            ELSE IF endOfBody.buf = nlnl
            THEN Signed(TRUE, readUntil(endOfBody.st, nlnl, d.maxSigSize, d.initialBufSize))
            ELSE Signed(FALSE, endOfBody)
    IN Trailer(readUntil(st, nlnl, d.maxSigSize, d.initialBufSize))

\* Decoder.Decode from the trailer on: headAndSep and body are read
decodeTrailer(st, d, headAndSep, headers, length, body) ==
    LET headLen == Len(headAndSep) - Len(nlnl)
        Signed(gotSep, sigRead) ==
            LET sig == IF HasSuffix(sigRead.buf, nlnl)
                       THEN Take(sigRead.buf, Len(sigRead.buf) - 1)
                       ELSE sigRead.buf
                finalContent == IF gotSep THEN headAndSep \o body
                                ELSE Take(headAndSep, headLen)
                finalBody == IF length > 0 THEN Drop(finalContent, headLen + Len(nlnl))
                             ELSE <<>>
            IN IF gotSep /\ sigRead.err # NoErr /\ sigRead.err # EOF
               THEN Returned(sigRead.st,
                             Failed(Wrap("error reading assertion signature", sigRead.err)))
               ELSE IF ~gotSep /\ length > 0
               THEN Returned(sigRead.st, Failed(Errorf("missing content/signature separator")))
               ELSE Returned(sigRead.st, Assemble(headers, finalBody, finalContent, sig))
        Trailer(endOfBody) ==
            IF endOfBody.err # NoErr /\ endOfBody.err # EOF
            THEN Returned(endOfBody.st,
                          Failed(Wrap("error reading assertion trailer", endOfBody.err)))
            ELSE IF endOfBody.buf = nlnl
            THEN Signed(TRUE, readUntil(endOfBody.st, nlnl, d.maxSigSize, d.initialBufSize))
            ELSE Signed(FALSE, endOfBody)
    IN Trailer(readUntil(st, nlnl, d.maxSigSize, d.initialBufSize))

\* Decoder.Decode from the parsed headers on
decodeBody(st, d, headAndSep, headers) ==
    LET WithBody(length, bodyRead) ==
            IF bodyRead.err # NoErr THEN Returned(bodyRead.st, Failed(bodyRead.err))
            ELSE decodeTrailer(bodyRead.st, d, headAndSep, headers, length,
                               IF length > 0 THEN bodyRead.buf ELSE <<>>)
        Checked(length) ==
            IF length.err # NoErr THEN Returned(st, Failed(Wrap("assertion", length.err)))
            ELSE IF length.v > d.maxBodySize
            THEN Returned(st, Failed(Errorf("assertion body length exceeds maximum body size")))
            ELSE IF Len(headAndSep) + length.v < 0 THEN Returned(st, Failed(ErrPanic))
            ELSE IF length.v > 0
            THEN WithBody(length.v, readExact(st, length.v, d.initialBufSize))
            ELSE WithBody(length.v, [st |-> st, buf |-> <<>>, err |-> NoErr])
    IN Checked(checkInteger(headers, S_body_length, 0))

\* Decoder.Decode(): the next assertion of the stream, or an error
DecoderDecode(st, d) ==
    LET Parsed(headRead, parsed) ==
            IF parsed.err # NoErr
            THEN Returned(headRead.st, Failed(Wrap("parsing assertion headers", parsed.err)))
            ELSE decodeBody(headRead.st, d, headRead.buf, parsed.headers)
        HeadRead(headRead) ==
            IF headRead.err = EOF
            THEN IF Len(headRead.buf) # 0 THEN Returned(headRead.st, Failed(ErrUnexpectedEOF))
                 ELSE Returned(headRead.st, Failed(EOF))
            ELSE IF headRead.err # NoErr
            THEN Returned(headRead.st,
                          Failed(Wrap("error reading assertion headers", headRead.err)))
            ELSE Parsed(headRead,
                        parseHeaders(Take(headRead.buf, Len(headRead.buf) - Len(nlnl))))
    IN HeadRead(readUntil(st, nlnl, d.maxHeadersSize, d.initialBufSize))

-----------------------------------------------------------------------------
(* The streaming Encoder.  Its state is e = [nextSep, wr, budget]: wr is what the *)
(* io.Writer received so far and budget the number of Write calls that will      *)
(* still succeed (NoLimit: the writer never fails)                               *)

NoLimit == -1
ErrWriter == <<"W">>

\* enc.wr.Write(p)
writerWrite(e, p) ==
    IF e.budget = 0 THEN [e |-> e, err |-> ErrWriter]
    ELSE [e |-> [e EXCEPT !.wr = @ \o p, !.budget = IF @ = NoLimit THEN @ ELSE @ - 1],
          err |-> NoErr]

\* append that never sets the separator of the next assertion
append_noSeparator(e, encoded) ==
    LET sz == Len(encoded)
        w1 == writerWrite(e, e.nextSep)
        w2 == writerWrite(w1.e, encoded)
        w3 == IF encoded[sz] # "\n" THEN writerWrite(w2.e, nl) ELSE w2
    IN IF sz = 0
       THEN [e |-> e, err |-> Errorf("internal error: encoded assertion cannot be empty")]
       ELSE IF w1.err # NoErr THEN w1
       ELSE IF w2.err # NoErr THEN w2
       ELSE w3

\* Encoder.append(encoded)
append(e, encoded) ==
    LET sz == Len(encoded)
        w1 == writerWrite(e, e.nextSep)
        w2 == writerWrite(w1.e, encoded)
        w3 == IF encoded[sz] # "\n" THEN writerWrite(w2.e, nl) ELSE w2
    IN IF sz = 0
       THEN [e |-> e, err |-> Errorf("internal error: encoded assertion cannot be empty")]
       ELSE IF w1.err # NoErr THEN w1
       ELSE IF w2.err # NoErr THEN w2
       ELSE IF w3.err # NoErr THEN w3
       ELSE [e |-> [w3.e EXCEPT !.nextSep = nl], err |-> NoErr]

\* Encoder.Encode(assert)
EncoderEncode(e, assert) == append(e, Encode(assert))

\* NewEncoder(w)
NewEncoder(budget) == [nextSep |-> <<>>, wr |-> <<>>, budget |-> budget]

-----------------------------------------------------------------------------
(* Values the other components hold while one component is exercised *)

HdrIdle == [phase |-> "idle"]
CodecIdle == [phase |-> "idle"]
RdIdle == [events |-> <<>>, final |-> EOF]
BIdle == [buf |-> <<>>, size |-> 0, err |-> NoErr]
CfgIdle == [initialBufSize |-> 0, maxHeadersSize |-> 0, maxBodySize |-> 0, maxSigSize |-> 0]
ScnIdle == [kind |-> "idle"]
EncIdle == [phase |-> "idle"]

DecoderIdle ==
    /\ rd = RdIdle /\ b = BIdle /\ derr = NoErr /\ cfg = CfgIdle
    /\ out = <<>> /\ scn = ScnIdle /\ oneshot = <<>>
EncoderIdle == enc = EncIdle /\ encIn = <<>>

\* all sequences over A of length at most n
SeqsUpTo(A, n) == UNION {[1..k -> A] : k \in 0..n}

-----------------------------------------------------------------------------
(* The header grammar exercised: entries written by writeHeader, then parsed *)

MaxValueLen == 3

ValueBytes == {"a", " ", "\n", ":"}
HeaderValues == SeqsUpTo(ValueBytes, MaxValueLen)
TestedNames == {<<"a", "b">>, <<"x", "-", "1">>}
N_ma == <<"m", "a">>
N_zz == <<"z", "z">>
TypeLine == <<"t", "y", "p", "e", ":", " ">> \o S_account

InitHeader ==
    /\ \E name \in TestedNames, value \in HeaderValues,
          todo \in {<<1>>, <<1, 2>>, <<0, 1>>} :
          hdr = [phase |-> "writing",
                 name |-> name,
                 headers |-> (name :> value) @@ (N_ma :> <<"x", "\n", "y">>) @@ (N_zz :> <<"1">>),
                 todo |-> [i \in 1..Len(todo) |->
                              IF todo[i] = 0 THEN N_ma ELSE IF todo[i] = 1 THEN name ELSE N_zz],
                 wrote |-> {},
                 buf |-> TypeLine,
                 parsed |-> [headers |-> EmptyMap, err |-> NoErr]]
    /\ codec = CodecIdle
    /\ DecoderIdle
    /\ EncoderIdle

\* writeHeader(buf, headers, name) for the next entry to write
HdrWriteHeader ==
    /\ hdr.phase = "writing"
    /\ hdr.todo # <<>>
    /\ hdr' = [hdr EXCEPT !.buf = writeHeader(hdr.buf, hdr.headers, Head(hdr.todo)),
                          !.wrote = @ \cup {Head(hdr.todo)},
                          !.todo = Tail(@)]
    /\ UNCHANGED <<codec, rd, b, derr, cfg, out, scn, oneshot, enc, encIn>>

\* parseHeaders(buf) on the finished block
HdrParseHeaders ==
    /\ hdr.phase = "writing"
    /\ hdr.todo = <<>>
    /\ hdr' = [hdr EXCEPT !.phase = "parsed", !.parsed = parseHeaders(hdr.buf)]
    /\ UNCHANGED <<codec, rd, b, derr, cfg, out, scn, oneshot, enc, encIn>>

NextHeader == HdrWriteHeader \/ HdrParseHeaders

SpecHeader == InitHeader /\ [][NextHeader]_vars

\* C10: a header written by writeHeader parses back to exactly its value under its
\* name, whatever the value (empty, one line, several lines, leading or trailing
\* newline, empty lines, lines that start with a space), and what writeHeader
\* wrote never contains "\n\n".
C10_HeaderValueRoundTrip ==
    /\ hdr.phase # "idle" => Index(hdr.buf, nlnl) = -1
    /\ hdr.phase = "parsed" =>
          /\ hdr.parsed.err = NoErr
          /\ DOMAIN hdr.parsed.headers = hdr.wrote \cup {S_type}
          /\ \A n \in hdr.wrote : hdr.parsed.headers[n] = hdr.headers[n]

\* a value that starts and ends with a newline and has a line starting with a
\* space was written before another entry and parsed back
C10_Witness ==
    /\ hdr.phase = "parsed"
    /\ hdr.headers[hdr.name] = <<"\n", " ", "\n">>
    /\ N_zz \in hdr.wrote
    /\ hdr.parsed.err = NoErr
    /\ hdr.parsed.headers[hdr.name] = <<"\n", " ", "\n">>

-----------------------------------------------------------------------------
(* The codec exercised: assembleAndSign, then Encode, then the one-shot Decode *)

MaxExtras == 3

N_ab == <<"a", "b">>
N_b_c == <<"b", "-", "c">>
N_Z1 == <<"Z", "1">>
N_a == <<"a">>
\* headers a caller may add to the mandatory ones, with their values
ExtraHeaders ==
    (N_zz :> <<"v">>) @@ (N_ab :> <<"x", "\n", "y">>) @@ (N_b_c :> <<>>)
      @@ (N_Z1 :> <<"v">>) @@ (N_a :> <<"v">>)

BogusType == [Name |-> <<"b", "o", "g", "u", "s">>, PrimaryKey |-> <<>>]
CallerTypes == {AccountType, SnapBuildType, BogusType}
Revisions == {<<>>, <<"0">>, <<"3">>, <<"-", "1">>}
Bodies == {<<>>, <<"h", "i">>, <<"a", "\n", "\n", "b">>}
Variants == {"ok", "no-authority", "bad-primary-key", "sign-fails"}

\* the orders in which the elements of S can be visited
Perms(S) == {p \in [1..Cardinality(S) -> S] : \A i, j \in 1..Cardinality(S) : p[i] = p[j] => i = j}

\* the headers a caller passes
CallerHeaders(assertType, rev, bookkeeping, extras, variant) ==
    LET pk == assertType.PrimaryKey
        keys == [n \in {pk[i] : i \in 1..Len(pk)} |->
                   IF variant = "bad-primary-key" THEN <<"k", "/">> ELSE <<"k">>]
        auth == IF variant = "no-authority" THEN EmptyMap ELSE (S_authority_id :> <<"c">>)
        revh == IF rev = <<>> THEN EmptyMap ELSE (S_revision :> rev)
        book == IF bookkeeping THEN (S_type :> S_model) @@ (S_body_length :> <<"9">>) ELSE EmptyMap
        more == [n \in extras |-> ExtraHeaders[n]]
    IN more @@ keys @@ auth @@ revh @@ book

InitCodec ==
    /\ \E assertType \in CallerTypes, rev \in Revisions, bookkeeping \in BOOLEAN,
          extras \in {S \in SUBSET DOMAIN ExtraHeaders : Cardinality(S) <= MaxExtras},
          body \in Bodies, variant \in Variants :
          \E order \in Perms(extras) :
             codec = [phase |-> "input",
                      assertType |-> assertType,
                      headers |-> CallerHeaders(assertType, rev, bookkeeping, extras, variant),
                      body |-> body,
                      privKey |-> [sig |-> <<"S">>, fail |-> variant = "sign-fails"],
                      rangeOrder |-> order \o <<S_type, S_authority_id, S_body_length>>,
                      res |-> Failed(NoErr),
                      encoded |-> <<>>,
                      decoded |-> Failed(NoErr)]
    /\ hdr = HdrIdle
    /\ DecoderIdle
    /\ EncoderIdle

\* assembleAndSign(assertType, headers, body, privKey)
CodecAssembleAndSign ==
    /\ codec.phase = "input"
    /\ LET r == assembleAndSign(codec.assertType, codec.headers, codec.body,
                                codec.privKey, codec.rangeOrder)
       IN codec' = [codec EXCEPT !.phase = IF r.err = NoErr THEN "assembled" ELSE "refused",
                                 !.res = r]
    /\ UNCHANGED <<hdr, rd, b, derr, cfg, out, scn, oneshot, enc, encIn>>

\* Encode(assert) of the assembled assertion
CodecEncode ==
    /\ codec.phase = "assembled"
    /\ codec' = [codec EXCEPT !.phase = "encoded", !.encoded = Encode(codec.res.a)]
    /\ UNCHANGED <<hdr, rd, b, derr, cfg, out, scn, oneshot, enc, encIn>>

\* Decode(serializedAssertion) of the encoded assertion
CodecDecode ==
    /\ codec.phase = "encoded"
    /\ codec' = [codec EXCEPT !.phase = "decoded", !.decoded = Decode(codec.encoded)]
    /\ UNCHANGED <<hdr, rd, b, derr, cfg, out, scn, oneshot, enc, encIn>>

NextCodec == CodecAssembleAndSign \/ CodecEncode \/ CodecDecode

SpecCodec == InitCodec /\ [][NextCodec]_vars

Bookkeeping == {S_type, S_authority_id, S_revision, S_body_length}
\* the headers of a map that are not bookkeeping headers
NonBookkeeping(headers) == [n \in DOMAIN headers \ Bookkeeping |-> headers[n]]

\* C1 (as claimed): whatever assembleAndSign accepted decodes back, after Encode,
\* to an assertion with the same type, revision, authority-id, body and
\* non-bookkeeping headers.
C1_AssembleRoundTrip ==
    codec.phase = "decoded" =>
        /\ codec.decoded.err = NoErr
        /\ MapGet(codec.decoded.a.headers, S_type) = MapGet(codec.res.a.headers, S_type)
        /\ codec.decoded.a.revision = codec.res.a.revision
        /\ MapGet(codec.decoded.a.headers, S_authority_id)
             = MapGet(codec.res.a.headers, S_authority_id)
        /\ codec.decoded.a.body = codec.res.a.body
        /\ NonBookkeeping(codec.decoded.a.headers) = NonBookkeeping(codec.res.a.headers)


\* the header block of an assembled assertion: its content without "\n\n" and body
HeadOf(a) ==
    IF a.body = <<>> THEN a.content ELSE Take(a.content, Len(a.content) - Len(a.body) - 2)

\* the names of the entries of a header block, in the order of the block (a line
\* that starts with a space continues the entry before it)
RECURSIVE EntryNamesOf(_)
EntryNamesOf(lines) ==
    IF lines = <<>> THEN <<>>
    ELSE (IF Head(lines) # <<>> /\ Head(lines)[1] = " " THEN <<>>
          ELSE <<Take(Head(lines), Index(Head(lines), <<":">>))>>)
         \o EntryNamesOf(Tail(lines))
EntryNames(head) == EntryNamesOf(SplitLines(head))

Range(s) == {s[i] : i \in 1..Len(s)}

\* x is before y in ASCII-lexicographic order
LexLess(x, y) ==
    \E k \in 0..Len(x) :
        /\ k <= Len(y)
        /\ Take(x, k) = Take(y, k)
        /\ \/ k = Len(x) /\ k < Len(y)
           \/ k < Len(x) /\ k < Len(y) /\ Ord(x[k + 1]) < Ord(y[k + 1])

Assembled == codec.phase \in {"assembled", "encoded", "decoded"}

Reverse(s) == [i \in 1..Len(s) |-> s[Len(s) + 1 - i]]

\* C7: the signed content lists every header once, in canonical order: type,
\* authority-id, revision if > 0, the primary key in the type's order, the other
\* headers in strict ASCII-lexicographic order, body-length if the body is not
\* empty; then "\n\n" and the body if it is not empty.  The bytes do not depend on
\* the order in which the run ranges over the header map.
C7_CanonicalOrder ==
    Assembled =>
        LET a == codec.res.a
            head == HeadOf(a)
            names == EntryNames(head)
            pk == codec.assertType.PrimaryKey
            hasRev == a.revision > 0
            hasBody == codec.body # <<>>
            nFixed == IF hasRev THEN 3 ELSE 2
            nLast == IF hasBody THEN 1 ELSE 0
            rest == SubSeq(names, nFixed + Len(pk) + 1, Len(names) - nLast)
        IN /\ Len(names) >= nFixed + Len(pk) + nLast
           /\ names[1] = S_type
           /\ names[2] = S_authority_id
           /\ hasRev => names[3] = S_revision
           /\ \A i \in 1..Len(pk) : names[nFixed + i] = pk[i]
           /\ \A i \in 1..(Len(rest) - 1) : LexLess(rest[i], rest[i + 1])
           /\ Range(rest) = DOMAIN codec.headers \ (Bookkeeping \cup Range(pk))
           /\ hasBody => names[Len(names)] = S_body_length
           /\ Cardinality(Range(names)) = Len(names)
           /\ Index(head, nlnl) = -1
           /\ a.content = head \o (IF hasBody THEN nlnl \o codec.body ELSE <<>>)
           /\ a.content = assembleAndSign(codec.assertType, codec.headers, codec.body,
                                          codec.privKey, Reverse(codec.rangeOrder)).a.content

\* a snap-build assertion with revision 3, a body and three other headers, ranged
\* over in an order that is not the sorted one, was assembled
C7_Witness ==
    /\ Assembled
    /\ codec.assertType = SnapBuildType
    /\ codec.res.a.revision = 3
    /\ codec.body # <<>>
    /\ SubSeq(codec.rangeOrder, 1, 3) = <<N_zz, N_ab, N_Z1>>
    /\ EntryNames(HeadOf(codec.res.a))
         = <<S_type, S_authority_id, S_revision, S_series, S_snap_id, S_snap_digest,
             N_Z1, N_ab, N_zz, S_body_length>>

\* C8: the assembled assertion has a revision header exactly when revision > 0,
\* exactly when its content has a revision line; it has a body-length header
\* exactly when the body is not empty, exactly when its content has a body-length
\* line and a body section; its type and body-length are the computed ones, not
\* the caller's.
C8_Bookkeeping ==
    Assembled =>
        LET a == codec.res.a
            names == Range(EntryNames(HeadOf(a)))
        IN /\ (S_revision \in DOMAIN a.headers) <=> (a.revision > 0)
           /\ (a.revision > 0) <=> (S_revision \in names)
           /\ a.revision > 0 => a.headers[S_revision] = codec.headers[S_revision]
           /\ (S_body_length \in DOMAIN a.headers) <=> (codec.body # <<>>)
           /\ (codec.body # <<>>) <=> (S_body_length \in names /\ Index(a.content, nlnl) # -1)
           /\ (codec.body # <<>>) <=> (S_body_length \in names \/ Index(a.content, nlnl) # -1)
           /\ a.body = codec.body
           /\ codec.body # <<>> => AtoiOk(a.headers[S_body_length])
                                     /\ Atoi(a.headers[S_body_length]) = Len(codec.body)
           /\ a.headers[S_type] = codec.assertType.Name

\* the caller passed its own type and body-length and revision 0 with an empty
\* body: the assembled assertion has neither a revision nor a body-length header
C8_Witness ==
    /\ Assembled
    /\ S_body_length \in DOMAIN codec.headers
    /\ codec.headers[S_type] = S_model
    /\ MapGet(codec.headers, S_revision) = <<"0">>
    /\ codec.body = <<>>
    /\ S_revision \notin DOMAIN codec.res.a.headers
    /\ S_body_length \notin DOMAIN codec.res.a.headers
    /\ codec.res.a.headers[S_type] = S_account

-----------------------------------------------------------------------------
(* The streaming Decoder exercised on streams of encoded assertions, whole, cut  *)
(* short, or interrupted by a reader error                                       *)

MaxParts == 2
MaxTail == 5
MaxCalls == 4

\* the reader's error that is not io.EOF
ErrReader == <<"E">>

Entry(name, value) == name \o <<":", " ">> \o value
H0 == TypeLine \o nl \o Entry(S_authority_id, <<"c">>) \o nl \o Entry(S_account_id, <<"a">>)
H2 == H0 \o nl \o Entry(S_body_length, <<"2">>)
\* a declared body-length below minus the length of the header block
HNeg == H0 \o nl \o Entry(S_body_length, <<"-", "9", "9">>)

\* an encoded assertion by its parts; sep: an empty body is still followed by the
\* content/signature separator
Part(head, body, sep, sig) == [head |-> head, body |-> body, sep |-> sep, sig |-> sig]
ContentOf(p) == p.head \o (IF p.body # <<>> \/ p.sep THEN nlnl \o p.body ELSE <<>>)
Wire(p) == ContentOf(p) \o nlnl \o p.sig

P_plain == Part(H0, <<>>, FALSE, <<"S", "\n">>)
P_body == Part(H2, <<"h", "i">>, FALSE, <<"S", "\n">>)
P_sep == Part(H0, <<>>, TRUE, <<"S", "\n">>)
P_nlbody == Part(H2, <<"\n", "\n">>, FALSE, <<"S", "\n">>)
P_nlsig == Part(H0, <<>>, FALSE, <<"\n">>)
P_bodynlsig == Part(H2, <<"h", "i">>, FALSE, <<"\n">>)

\* encoded assertions that end in "\n"
Pool == {P_plain, P_body, P_sep, P_nlbody, P_nlsig, P_bodynlsig}
CutPool == {P_plain, P_body, P_sep}
RecoverPool == {P_plain, P_body}

\* the parts joined by a single "\n"
RECURSIVE JoinParts(_)
JoinParts(parts) ==
    IF parts = <<>> THEN <<>>
    ELSE IF Len(parts) = 1 THEN Wire(parts[1])
    ELSE Wire(parts[1]) \o nl \o JoinParts(Tail(parts))

\* NewDecoder's configuration, and smaller ones
CfgDefault == [initialBufSize |-> defaultDecoderButSize, maxHeadersSize |-> MaxHeadersSize,
               maxBodySize |-> MaxBodySize, maxSigSize |-> MaxSignatureSize]
CfgSmall == [initialBufSize |-> 4, maxHeadersSize |-> 64, maxBodySize |-> 4, maxSigSize |-> 4]
CfgOdd == [initialBufSize |-> 4, maxHeadersSize |-> 60, maxBodySize |-> 4, maxSigSize |-> 6]
CfgTight == [initialBufSize |-> 16, maxHeadersSize |-> 64, maxBodySize |-> 1, maxSigSize |-> 16]
CfgWide == [initialBufSize |-> 64, maxHeadersSize |-> 16, maxBodySize |-> 4, maxSigSize |-> 2]
Configs == {CfgDefault, CfgSmall, CfgOdd, CfgTight, CfgWide}

Events(bytes) == IF bytes = <<>> THEN <<>> ELSE <<DataEvent(bytes)>>

\* the Decoder of NewDecoder (or of a test's configuration) over a reader
DecoderOver(events, final, d, scenario) ==
    /\ rd = [events |-> events, final |-> final]
    /\ b = NewReaderSize(d.initialBufSize)
    /\ derr = NoErr
    /\ cfg = d
    /\ out = <<>>
    /\ oneshot = <<>>
    /\ scn = scenario

Scenario(kind, parts, stream, cut) ==
    [kind |-> kind, parts |-> parts, stream |-> stream, cut |-> cut]

\* a stream of whole encoded assertions
InitWhole ==
    \E parts \in SeqsUpTo(Pool, MaxParts), d \in Configs :
        DecoderOver(Events(JoinParts(parts)), EOF, d,
                    Scenario("whole", parts, JoinParts(parts), Len(JoinParts(parts))))

\* a two byte body, the content/signature separator and a signature of three or
\* four bytes that ends the stream
BodyTails == {<<"S", "S">> \o nlnl \o sig : sig \in {<<"S", "S", "S">>, <<"S", "S", "S", "S">>}}

\* one header block, "\n\n", and any short tail of newlines and signature bytes, or
\* a body with a signature
InitTail ==
    \E head \in {H0, H2, HNeg}, tail \in SeqsUpTo({"\n", "S"}, MaxTail) \cup BodyTails,
       d \in {CfgDefault, CfgSmall} :
        DecoderOver(Events(head \o nlnl \o tail), EOF, d,
                    Scenario("tail", <<>>, head \o nlnl \o tail, Len(head \o nlnl \o tail)))

\* a stream that ends, or fails for good, inside its last assertion
InitCut ==
    \E parts \in SeqsUpTo(CutPool, 2) \ {<<>>}, final \in {EOF, ErrReader},
       d \in {CfgDefault, CfgSmall} :
        \E cut \in (Len(JoinParts(parts)) - Len(Wire(parts[Len(parts)])))
                      ..(Len(JoinParts(parts)) - 1) :
            DecoderOver(Events(Take(JoinParts(parts), cut)), final, d,
                        Scenario("cut", parts, Take(JoinParts(parts), cut), cut))

\* a reader that fails once at some point of the stream and then goes on
InitRecover ==
    \E parts \in SeqsUpTo(RecoverPool, 2) \ {<<>>}, d \in {CfgDefault, CfgSmall} :
        \E cut \in 0..Len(JoinParts(parts)) :
            DecoderOver(Events(Take(JoinParts(parts), cut)) \o <<ErrEvent(ErrReader)>>
                            \o Events(Drop(JoinParts(parts), cut)),
                        EOF, d, Scenario("recover", parts, JoinParts(parts), cut))

InitDecoder ==
    /\ InitWhole \/ InitTail \/ InitCut \/ InitRecover
    /\ hdr = HdrIdle
    /\ codec = CodecIdle
    /\ EncoderIdle

\* the bytes of the events, in order
RECURSIVE EventBytes(_)
EventBytes(events) ==
    IF events = <<>> THEN <<>> ELSE Head(events).data \o EventBytes(Tail(events))

\* the bytes not yet consumed: buffered ones, then those the reader will still deliver
Unread == b.buf \o EventBytes(rd.events)

\* one call of Decoder.Decode()
DecoderCallDecode ==
    /\ scn.kind # "idle"
    /\ Len(out) < MaxCalls
    /\ \A i \in 1..Len(out) : out[i].err # ErrPanic
    /\ LET Called(r) ==
               /\ rd' = r.st.rd
               /\ b' = r.st.b
               /\ derr' = r.st.derr
               /\ out' = Append(out, [a |-> r.a, err |-> r.err, log |-> r.st.log,
                                      failed |-> r.st.failed, before |-> Unread])
       IN Called(DecoderDecode([rd |-> rd, b |-> b, derr |-> derr,
                                log |-> <<>>, failed |-> FALSE], cfg))
    /\ UNCHANGED <<hdr, codec, cfg, scn, oneshot, enc, encIn>>

\* the one-shot Decode of the same bytes
OneShotDecode ==
    /\ scn.kind # "idle"
    /\ oneshot = <<>>
    /\ oneshot' = <<Decode(scn.stream)>>
    /\ UNCHANGED <<hdr, codec, rd, b, derr, cfg, out, scn, enc, encIn>>

NextDecoder == DecoderCallDecode \/ OneShotDecode

SpecDecoder == InitDecoder /\ [][NextDecoder]_vars

-----------------------------------------------------------------------------
(* Encoding what was decoded *)

\* what the streaming Encoder writes for one assertion
StreamEncoded(assert) == EncoderEncode(NewEncoder(NoLimit), assert).e.wr

\* B, B with one "\n" added when it does not end in one, B with a trailing "\n\n"
\* made "\n"
UpToTrailingNewline(B) ==
    {B} \cup (IF HasSuffix(B, nl) THEN {} ELSE {B \o nl})
        \cup (IF HasSuffix(B, nlnl) THEN {Take(B, Len(B) - 1)} ELSE {})

\* the stream held exactly one assertion for the streaming decoder
StreamIsOneAssertion == Len(out) >= 2 /\ out[1].err = NoErr /\ out[2].err = EOF

\* C2: for every byte sequence B that decoding accepts (Decode of the whole of B,
\* or a Decoder that returns one assertion and then io.EOF for B), encoding the
\* decoded assertion gives B again, but for one "\n" added at the end when B has
\* none and a trailing "\n\n" made "\n"; every other byte is reproduced.
C2_EncodeDecode ==
    /\ (oneshot # <<>> /\ oneshot[1].err = NoErr) =>
          /\ Encode(oneshot[1].a) \in UpToTrailingNewline(scn.stream)
          /\ StreamEncoded(oneshot[1].a) \in UpToTrailingNewline(scn.stream)
    /\ StreamIsOneAssertion =>
          /\ Encode(out[1].a) \in UpToTrailingNewline(scn.stream)
          /\ StreamEncoded(out[1].a) \in UpToTrailingNewline(scn.stream)

\* a stream ending in "\n\n" was decoded and its assertion encodes to one "\n" less;
\* the same bytes without the final "\n" were accepted by Decode
C2_Witness ==
    /\ StreamIsOneAssertion
    /\ HasSuffix(scn.stream, <<"S">> \o nlnl)
    /\ Encode(out[1].a) = Take(scn.stream, Len(scn.stream) - 1)
    /\ oneshot # <<>>
    /\ oneshot[1].err # NoErr

-----------------------------------------------------------------------------
(* Streams of whole assertions *)

\* the assertion that an encoded assertion stands for
AssertionOf(p) == Base(parseHeaders(p.head).headers, p.body, 0, ContentOf(p), p.sig)

\* call i returned the i-th assertion of the stream, and the call after the last
\* one io.EOF
InArrivalOrder(i) ==
    /\ i <= Len(scn.parts) => out[i].err = NoErr /\ out[i].a = AssertionOf(scn.parts[i])
    /\ i = Len(scn.parts) + 1 => out[i].err = EOF

WholeStream == scn.kind = "whole" /\ Len(scn.parts) >= 1

\* C3 (as claimed): for any stream of n >= 1 encoded assertions, each ending in
\* "\n", joined by a single "\n", the first n calls of Decode() of NewDecoder's
\* Decoder return them in order, each with its headers, body and signature, and
\* call n+1 returns io.EOF.
C3_AnyStreamInOrder ==
    (WholeStream /\ cfg = CfgDefault) => \A i \in 1..Len(out) : InArrivalOrder(i)

\* the stream can be framed: no signature holds "\n\n", and no assertion without a
\* body section has the signature "\n"
Framable(p) ==
    /\ Index(p.sig, nlnl) = -1
    /\ ~(p.body = <<>> /\ ~p.sep /\ p.sig = nl)

\* C3 (amended): the same, for assertions whose signature holds no "\n\n" and,
\* when the assertion has no body section, is not the single byte "\n"; the
\* Decoder is NewDecoder's, or one whose sizes reach every component.
C3_FramedStreamInOrder ==
    (/\ WholeStream
     /\ cfg \in {CfgDefault, CfgSmall}
     /\ \A k \in 1..Len(scn.parts) : Framable(scn.parts[k]))
        => \A i \in 1..Len(out) : InArrivalOrder(i)

\* two assertions, the first with a body, were decoded in order from a buffer that
\* had to grow, and the third call returned io.EOF
C3_Witness ==
    /\ WholeStream
    /\ cfg = CfgSmall
    /\ scn.parts = <<P_body, P_plain>>
    /\ Len(out) = 3
    /\ out[1].a = AssertionOf(P_body)
    /\ out[2].a = AssertionOf(P_plain)
    /\ out[3].err = EOF

-----------------------------------------------------------------------------
(* Errors of the reader *)

\* the error of the reader that a returned error carries, the phase's prefix aside
Cause(err) == <<err[Len(err)]>>

\* C4: once the reader has returned an error that is not io.EOF during a call of
\* Decode(), every later call returns the error that call returned (here: an
\* error carrying the same error of the reader), never an assertion and never
\* io.EOF, whatever the reader delivers afterwards and in whichever phase the
\* error came.
C4_ErrorSticky ==
    \A i \in 1..Len(out) : \A j \in (i + 1)..Len(out) :
        out[i].failed =>
            /\ out[j].err \notin {NoErr, EOF}
            /\ out[i].err # NoErr => Cause(out[j].err) = Cause(out[i].err)

-----------------------------------------------------------------------------
(* Streams that end early *)

LastPart == scn.parts[Len(scn.parts)]

\* where the stream ends, counted from the first byte of its last assertion
CutAt == scn.cut - (Len(JoinParts(scn.parts)) - Len(Wire(LastPart)))

\* after at least one header byte and before the end of the headers' "\n\n"
MidHeaders(p) == 1..(Len(p.head) + 1)

\* after the headers' "\n\n" with fewer than body-length bytes of body
MidBody(p) ==
    IF p.body = <<>> THEN {} ELSE (Len(p.head) + 2)..(Len(p.head) + 1 + Len(p.body))

\* after the content and before any byte of the signature: right after the content,
\* after the content/signature separator, or inside the separator that follows a
\* body
AfterContent(p) ==
    ({Len(ContentOf(p)), Len(ContentOf(p)) + 2}
        \cup (IF p.body = <<>> THEN {} ELSE {Len(ContentOf(p)) + 1}))
    \ MidHeaders(p)

\* the stream ends for good inside its last assertion, which this call decodes
CutStream == scn.kind = "cut" /\ rd.final = EOF /\ Len(out) >= Len(scn.parts)

\* io.EOF is returned only by a call that found nothing left to read
EOFOnlyAtBoundary == \A i \in 1..Len(out) : out[i].err = EOF => out[i].before = <<>>

\* C5 (as claimed): Decode() returns io.EOF only when the stream is exhausted at
\* the start of the call; when the stream ends inside an assertion (inside the
\* headers, inside the body, or after the content and before any signature byte)
\* the call returns io.ErrUnexpectedEOF.
C5_UnexpectedEOFInside ==
    /\ EOFOnlyAtBoundary
    /\ (CutStream /\ CutAt \in MidHeaders(LastPart) \cup MidBody(LastPart) \cup AfterContent(LastPart))
          => out[Len(scn.parts)].err = ErrUnexpectedEOF

\* C5 (amended): Decode() returns io.EOF only when the stream is exhausted at the
\* start of the call; when the stream ends inside the headers or inside the body
\* the call returns io.ErrUnexpectedEOF; when it ends after the content and before
\* any signature byte the call fails with "missing content/signature separator"
\* (after a body) or "empty assertion signature", not with io.ErrUnexpectedEOF.
C5_EndInsideAssertion ==
    /\ EOFOnlyAtBoundary
    /\ (CutStream /\ CutAt \in MidHeaders(LastPart) \cup MidBody(LastPart))
          => out[Len(scn.parts)].err = ErrUnexpectedEOF
    /\ (CutStream /\ CutAt \in AfterContent(LastPart))
          => out[Len(scn.parts)].err =
                IF LastPart.body # <<>> /\ CutAt < Len(ContentOf(LastPart)) + 2
                THEN Errorf("missing content/signature separator")
                ELSE Errorf("empty assertion signature")

\* a stream of two assertions ended right after the body of the second: the first
\* was decoded and the second call failed for the missing separator
C5_Witness ==
    /\ CutStream
    /\ scn.parts = <<P_plain, P_body>>
    /\ CutAt = Len(ContentOf(P_body))
    /\ Len(out) = 3
    /\ out[1].err = NoErr
    /\ out[2].err = Errorf("missing content/signature separator")
    /\ out[3].err = EOF

-----------------------------------------------------------------------------
(* Sizes *)

\* the length of the header block of a content
HeaderBlockLen(content) == IF Index(content, nlnl) = -1 THEN Len(content) ELSE Index(content, nlnl)

\* a returned assertion is within the Decoder's maximum sizes
WithinCaps(a) ==
    /\ HeaderBlockLen(a.content) + Len(nlnl) <= cfg.maxHeadersSize
    /\ Len(a.body) <= cfg.maxBodySize
    /\ Len(a.signature) <= cfg.maxSigSize

\* the sizes peeked by each delimiter search of a call start at initialBufSize and
\* double
PeeksDouble(log) ==
    \A k \in 1..Len(log) :
        IF log[k].last = 0 THEN log[k].size = cfg.initialBufSize
        ELSE k > 1 /\ log[k].size = 2 * log[k - 1].size /\ log[k].max = log[k - 1].max

HeadersMaxSize == Wrap("error reading assertion headers", ErrMaxSize)
TrailerMaxSize == Wrap("error reading assertion trailer", ErrMaxSize)

\* the first n bytes of s, or all of s
Prefix(s, n) == Take(s, Min({n, Len(s)}))

\* the reader delivers the stream and then io.EOF, no other error
ErrorFreeStream == scn.kind \in {"whole", "tail"} \/ (scn.kind = "cut" /\ rd.final = EOF)

\* C6 (as claimed): for every configuration and every stream, a returned assertion
\* is within maxHeadersSize (header block and "\n\n"), maxBodySize and maxSigSize;
\* the delimiter search peeks sizes that double from initialBufSize and never
\* exceed the maximum; and reading the headers fails with "maximum size exceeded"
\* exactly when "\n\n" does not occur within the first maxHeadersSize bytes.
C6_CapsForEveryConfiguration ==
    \A i \in 1..Len(out) :
        /\ out[i].err = NoErr => WithinCaps(out[i].a)
        /\ PeeksDouble(out[i].log)
        /\ \A k \in 1..Len(out[i].log) : out[i].log[k].size <= out[i].log[k].max
        /\ ErrorFreeStream =>
              (out[i].err = HeadersMaxSize
                  <=> Index(Prefix(out[i].before, cfg.maxHeadersSize), nlnl) = -1)

\* the largest of the sizes initialBufSize, 2*initialBufSize, 4*initialBufSize, ...
\* that is within maxSize, from size on
RECURSIVE LargestPeek(_, _)
LargestPeek(size, maxSize) ==
    IF 2 * size > maxSize THEN size ELSE LargestPeek(2 * size, maxSize)

\* the search for "\n\n" in bytes, the rest of an error-free stream, fails with
\* "maximum size exceeded" (failed) only if the largest size peeked holds no "\n\n"
\* and the stream is at least that long, and always if the stream is longer
MaxSizeWhenNotWithin(bytes, maxSize, failed) ==
    LET largest == LargestPeek(cfg.initialBufSize, maxSize)
        notWithin == Index(Prefix(bytes, largest), nlnl) = -1
    IN /\ failed => notWithin /\ Len(bytes) >= largest
       /\ (notWithin /\ Len(bytes) > largest) => failed

\* initialBufSize is within the maximum sizes of the delimiter searches
BufferWithinCaps ==
    cfg.initialBufSize <= cfg.maxHeadersSize /\ cfg.initialBufSize <= cfg.maxSigSize

\* C6 (amended): for a configuration whose initialBufSize does not exceed
\* maxHeadersSize and maxSigSize, a returned assertion is within the three maximum
\* sizes; the sizes peeked double from initialBufSize up to the largest such size
\* within the maximum; and on an error-free stream the search fails with "maximum
\* size exceeded" only if "\n\n" does not occur within that largest size and the
\* stream is at least that long, and always if the stream is longer (a shorter
\* stream without "\n\n" ends in io.EOF instead).
C6_CapsWhenBufferWithin ==
    BufferWithinCaps =>
        \A i \in 1..Len(out) :
            /\ out[i].err = NoErr => WithinCaps(out[i].a)
            /\ PeeksDouble(out[i].log)
            /\ \A k \in 1..Len(out[i].log) : out[i].log[k].size <= out[i].log[k].max
            /\ ErrorFreeStream =>
                  MaxSizeWhenNotWithin(out[i].before, cfg.maxHeadersSize,
                                       out[i].err = HeadersMaxSize)
            /\ (scn.kind = "tail" /\ i = 1 /\ Take(scn.stream, Len(H0 \o nlnl)) = H0 \o nlnl) =>
                  MaxSizeWhenNotWithin(Drop(scn.stream, Len(H0 \o nlnl)), cfg.maxSigSize,
                                       out[i].err = TrailerMaxSize)

\* "\n\n" is within maxHeadersSize but beyond the largest size the doubling reaches:
\* the call failed after peeking 4, 8, 16 and 32 bytes
C6_Witness ==
    /\ cfg = CfgOdd
    /\ Len(out) = 1
    /\ out[1].err = HeadersMaxSize
    /\ Index(out[1].before, nlnl) + Len(nlnl) <= cfg.maxHeadersSize
    /\ Len(out[1].log) = 4
    /\ out[1].log[4].size = 32

\* a signature search that ran into maxSigSize
C6_WitnessTrailer ==
    /\ cfg = CfgSmall
    /\ scn.kind = "tail"
    /\ Len(out) = 1
    /\ out[1].err = TrailerMaxSize

-----------------------------------------------------------------------------
(* Body length *)

\* the body of an assertion has the length its body-length header declares (0
\* without the header), and a body that is not empty ends the content
BodyLengthAgrees(a) ==
    /\ Len(a.body) = checkInteger(a.headers, S_body_length, 0).v
    /\ checkInteger(a.headers, S_body_length, 0).err = NoErr
    /\ a.body # <<>> => HasSuffix(a.content, a.body)

\* C11: every assertion returned by Decode or Decoder.Decode (both through
\* Assemble) has a body of the length its body-length header declares, 0 without
\* the header, and a content that ends with the body when there is one; an input
\* whose declared and actual lengths differ is rejected, that is the call returns
\* an error: it neither returns an assertion nor panics.
C11_BodyLength ==
    /\ \A i \in 1..Len(out) : out[i].err = NoErr => BodyLengthAgrees(out[i].a)
    /\ (oneshot # <<>> /\ oneshot[1].err = NoErr) => BodyLengthAgrees(oneshot[1].a)
    /\ \A i \in 1..Len(out) : out[i].err # ErrPanic

-----------------------------------------------------------------------------
(* Content of a decoded assertion *)

\* the header block that a call found at the head of the bytes left to read
HeaderBlockOf(bytes) == Take(bytes, Index(bytes, nlnl))

\* the bytes after the headers' "\n\n" start with another "\n\n"
ExplicitSeparator(bytes) ==
    LET rest == Drop(bytes, Index(bytes, nlnl) + Len(nlnl))
    IN Len(rest) >= Len(nlnl) /\ Take(rest, Len(nlnl)) = nlnl

\* C12 (as claimed): the content of an assertion returned by Decoder.Decode() is
\* the header block, "\n\n" and the body when the declared body-length is > 0, and
\* the header block alone whenever it is 0, also when the input has an explicit
\* content/signature separator after the empty body.
C12_ContentHeadersOnly ==
    \A i \in 1..Len(out) :
        out[i].err = NoErr =>
            out[i].a.content =
                IF Len(out[i].a.body) > 0
                THEN HeaderBlockOf(out[i].before) \o nlnl \o out[i].a.body
                ELSE HeaderBlockOf(out[i].before)

\* C12 (amended): the content is the header block, "\n\n" and the body when the
\* declared body-length is > 0; it is the header block alone when the length is 0
\* and the signature follows the headers' "\n\n" directly; when the length is 0 and
\* the input has an explicit separator (headers, "\n\n", "\n\n", signature) the
\* content is the header block followed by "\n\n", as Decode returns it.
C12_ContentAsRead ==
    \A i \in 1..Len(out) :
        out[i].err = NoErr =>
            /\ Index(out[i].before, nlnl) >= 0
            /\ out[i].a.content =
                  IF Len(out[i].a.body) > 0
                  THEN HeaderBlockOf(out[i].before) \o nlnl \o out[i].a.body
                  ELSE IF ExplicitSeparator(out[i].before)
                  THEN HeaderBlockOf(out[i].before) \o nlnl
                  ELSE HeaderBlockOf(out[i].before)
            /\ Len(out[i].a.body) > 0 =>
                  out[i].a.content = Take(out[i].before, Len(out[i].a.content))

\* an assertion with an empty body and an explicit separator was decoded, then one
\* with a body
C12_Witness ==
    /\ WholeStream
    /\ scn.parts = <<P_sep, P_body>>
    /\ Len(out) = 2
    /\ out[1].err = NoErr
    /\ out[1].a.content = H0 \o nlnl
    /\ out[2].err = NoErr
    /\ out[2].a.content = H2 \o nlnl \o <<"h", "i">>

-----------------------------------------------------------------------------
(* Decode and Decoder.Decode on the same bytes *)

\* Decode accepted the whole stream, which the reader delivers without error
OneShotAccepted == ErrorFreeStream /\ oneshot # <<>> /\ oneshot[1].err = NoErr

\* the first call returned what Decode returned, and the call after it io.EOF
SameAsOneShot ==
    /\ Len(out) >= 1 => (out[1].err = NoErr /\ out[1].a = oneshot[1].a)
    /\ Len(out) >= 2 => out[2].err = EOF

\* the maximum sizes of the delimiter searches are, as NewDecoder's, initialBufSize
\* doubled some number of times
CapsArePeeked ==
    /\ LargestPeek(cfg.initialBufSize, cfg.maxHeadersSize) = cfg.maxHeadersSize
    /\ LargestPeek(cfg.initialBufSize, cfg.maxSigSize) = cfg.maxSigSize

\* C13 (as claimed): for every byte sequence that Decode accepts with components
\* within the maximum sizes (of NewDecoder, or the like scaled down), the first Decoder.Decode() call on a stream of exactly
\* those bytes succeeds with identical headers, revision, body, content and
\* signature, and the following call returns io.EOF.
C13_DecodersAgreeWithinCaps ==
    (OneShotAccepted /\ CapsArePeeked /\ WithinCaps(oneshot[1].a)) => SameAsOneShot

\* the delimiter searches of the Decoder reach the end of the header block and the
\* end of the stream after the signature
WithinReach(a) ==
    /\ HeaderBlockLen(a.content) + Len(nlnl)
           <= LargestPeek(cfg.initialBufSize, cfg.maxHeadersSize)
    /\ Len(a.body) <= cfg.maxBodySize
    /\ Len(a.signature) < LargestPeek(cfg.initialBufSize, cfg.maxSigSize)

\* C13 (amended): for every byte sequence that Decode accepts, whose header block
\* with its "\n\n" is within the largest size the Decoder peeks within
\* maxHeadersSize, whose body is within maxBodySize and whose signature is shorter
\* than the largest size peeked within maxSigSize, the first Decoder.Decode() call
\* on a stream of exactly those bytes succeeds with identical headers, revision,
\* body, content and signature, and the following call returns io.EOF.
C13_DecodersAgreeWithinReach ==
    (OneShotAccepted /\ WithinReach(oneshot[1].a)) => SameAsOneShot

\* both decoders accepted headers, "\n\n", "\n\n", signature read through a four
\* byte buffer, and the second call returned io.EOF
C13_Witness ==
    /\ OneShotAccepted
    /\ cfg = CfgSmall
    /\ scn.stream = Wire(P_sep)
    /\ Len(out) = 2
    /\ out[1].err = NoErr
    /\ out[1].a = oneshot[1].a
    /\ out[1].a.content = H0 \o nlnl
    /\ out[2].err = EOF

-----------------------------------------------------------------------------
(* The streaming Encoder exercised *)

MaxWrites == 3

P_nonl == Part(H0, <<>>, FALSE, <<"S">>)

EncoderPool == {AssertionOf(p) : p \in Pool \cup {P_nonl}}

InitEncoder ==
    /\ \E budget \in {NoLimit, 0, 1, 2, 4} : enc = NewEncoder(budget)
    /\ encIn = <<>>
    /\ hdr = HdrIdle
    /\ codec = CodecIdle
    /\ DecoderIdle

\* one call of Encoder.Encode(assert)
EncoderCallEncode ==
    /\ Len(encIn) < MaxWrites
    /\ \E a \in EncoderPool :
          LET r == EncoderEncode(enc, a)
          IN /\ enc' = r.e
             /\ encIn' = Append(encIn, [a |-> a, err |-> r.err])
    /\ UNCHANGED <<hdr, codec, rd, b, derr, cfg, out, scn, oneshot>>

NextEncoder == EncoderCallEncode

SpecEncoder == InitEncoder /\ [][NextEncoder]_vars

NoWriteFailed == \A i \in 1..Len(encIn) : encIn[i].err = NoErr

\* Encode of the first n assertions written, joined by a single "\n"
RECURSIVE JoinedEncodings(_)
JoinedEncodings(n) ==
    IF n = 0 THEN <<>>
    ELSE IF n = 1 THEN Encode(encIn[1].a)
    ELSE JoinedEncodings(n - 1) \o nl \o Encode(encIn[n].a)

\* bytes ending in "\n": a "\n" is added when there is none
EndingInNewline(bytes) == IF bytes[Len(bytes)] = "\n" THEN bytes ELSE bytes \o nl

\* Encode of the first n assertions written, each ending in "\n" (one is added to
\* an encoding that does not), joined by a single "\n"
RECURSIVE JoinedTerminated(_)
JoinedTerminated(n) ==
    IF n = 0 THEN <<>>
    ELSE IF n = 1 THEN EndingInNewline(Encode(encIn[1].a))
    ELSE JoinedTerminated(n - 1) \o nl \o EndingInNewline(Encode(encIn[n].a))

\* C9 (as claimed): with a writer that does not fail, the bytes written are the
\* encoded assertions joined by a single "\n".
C9_PlainJoin == NoWriteFailed => enc.wr = JoinedEncodings(Len(encIn))

\* C9 (amended): with a writer that does not fail, the bytes written are the
\* encoded assertions, each followed by a "\n" if it does not end in one, joined
\* by a single "\n": nothing before the first, one "\n" before each later one.
C9_TerminatedJoin == NoWriteFailed => enc.wr = JoinedTerminated(Len(encIn))

\* an assertion whose encoding does not end in "\n" was written, then another one
C9_Witness ==
    /\ Len(encIn) = 2
    /\ NoWriteFailed
    /\ encIn[1].a = AssertionOf(P_nonl)
    /\ encIn[2].a = AssertionOf(P_body)
    /\ enc.wr = Wire(P_nonl) \o nl \o nl \o Wire(P_body)

====
